---------------------------- MODULE Spec2Model ----------------------------
(***************************************************************************)
(* The two Canvas components of src/src/Canvas.js (react-parallax-canvas)  *)
(* as one state machine.                                                   *)
(*                                                                         *)
(*   variant = 1   the getEasing-based component, Canvas.js lines 1-374    *)
(*   variant = 2   the applyNonDeterministicEaseOut-based component with   *)
(*                 a loading phase and an animationID, lines 376-874       *)
(*                                                                         *)
(* Numbers.  JavaScript numbers that hold distances, easing values and     *)
(* speeds are fixed-point integers in units of 1/Scale pixel; pointer      *)
(* coordinates, centers and painted sizes are whole pixels; opacity is in  *)
(* units of 1/OpacityOne; timestamps are whole milliseconds.               *)
(*                                                                         *)
(* Left out.  The 'load' listener of drawInit in the first component       *)
(* (lines 60-71) paints an image at its base size when it arrives; it      *)
(* writes no field that a handler reads, and the next frame clears the     *)
(* surface.                                                                *)
(***************************************************************************)
EXTENDS Integers, Sequences, FiniteSets, TLC

(***************************************************************************)
(* Bounds of the model.                                                    *)
(***************************************************************************)
\* How many entries of CANVAS_IMAGE_PROPS the mounted component is given.
NumImages == 3
\* How many drawing ticks and pointer-move events a behaviour of Spec may take.
MaxDrawTicks == 3
MaxMoves == 3
\* How many drawing ticks and pointer-move events a behaviour of LongSpec may take.
LongDrawTicks == 28
LongMoves == 2
\* requestAnimationFrame hands out the ids 1..NumFrameIds in a cycle.
NumFrameIds == 2
\* The latest timestamp (ms) at which an image's ready timer may still fire.
LoadDeadline == 1000
\* How many drawing ticks and pointer-move events a behaviour of SettleSpec
\* may have: enough ticks for an eased value to come to rest.
SettleDrawTicks == 215
SettleMoves == 1
\* How many easing steps and changes of destination a behaviour of EaseSpec
\* may take.
MaxEaseSteps == 12
MaxRetargets == 2

(***************************************************************************)
(* Program constants.                                                      *)
(***************************************************************************)
\* let cutOffDistance = 600
cutOffDistance == 600
\* let acc_coef = 0.05, as the fraction accCoefNum / accCoefDen
accCoefNum == 5
accCoefDen == 100
\* coefficient: 1/4
coefficientDen == 4
\* let duration = 2000
duration == 2000
\* this.currentValue = 2000 (pixels)
initialCurrentValue == 2000
\* mouseCoords = {x: 2000, y: 2000, ...} of the first component
initialMouse1 == 2000

(***************************************************************************)
(* Resolution of the fixed-point numbers and the environment's inputs.     *)
(***************************************************************************)
Scale == 10 * 10 * 10
OpacityOne == Scale * Scale
\* The timestamps of two successive frames differ by one of these (ms).
FrameDts == {1000, 1500}
MaxFrameDt == CHOOSE d \in FrameDts : \A e \in FrameDts : e <= d
\* Past this timestamp every image that loaded in time has faded in.
MaxClock == LoadDeadline + MaxFrameDt + duration
\* The positions (relative to the canvas box) pointer events report.
PointerPositions == {<<0, 0>>, <<10, 5>>, <<150, 100>>, <<170, 140>>}
\* The same two inputs of the behaviours of LongSpec.
LongFrameDts == {1500}
LongPositions == {<<150, 100>>, <<170, 140>>}
\* window.innerWidth and window.innerHeight, the canvas's size
innerWidth == 400
innerHeight == 400

\* undefined and null are the empty tuple; a field that may hold either of
\* them holds the number v as <<v>>.
Undefined == <<>>
Null == <<>>
Some(v) == <<v>>

\* CANVAS_IMAGE_PROPS; left and top in hundredths of the canvas size.
CANVAS_IMAGE_PROPS ==
  << [left |-> 20, top |-> 20, w |-> 200, h |-> 250, url |-> "boat.jpg"],
     [left |-> 60, top |-> 40, w |-> 200, h |-> 250, url |-> "evening.jpg"],
     [left |-> 28, top |-> 83, w |-> 200, h |-> 250, url |-> "sunset.jpg"],
     [left |-> 80, top |-> 30, w |-> 200, h |-> 250, url |-> "tree1.jpg"],
     [left |-> 90, top |-> 80, w |-> 200, h |-> 250, url |-> "tree2.jpg"],
     [left |-> 40, top |-> 25, w |-> 200, h |-> 250, url |-> "tree3.jpg"],
     [left |-> 57, top |-> 87, w |-> 200, h |-> 250, url |-> "boat.jpg"],
     [left |-> 89, top |-> 10, w |-> 200, h |-> 250, url |-> "evening.jpg"],
     [left |-> 12, top |-> 17, w |-> 200, h |-> 250, url |-> "sunset.jpg"],
     [left |-> 48, top |-> 74, w |-> 200, h |-> 250, url |-> "tree1.jpg"],
     [left |-> 3,  top |-> 66, w |-> 200, h |-> 250, url |-> "tree2.jpg"],
     [left |-> 68, top |-> 59, w |-> 200, h |-> 250, url |-> "tree3.jpg"] >>

\* The entries the mounted component is given, and CANVAS_IMAGE_PROPS.length
Props == SubSeq(CANVAS_IMAGE_PROPS, 1, NumImages)
PropsLength == Len(Props)
ImageIds == 1..PropsLength

(***************************************************************************)
(* Arithmetic.                                                             *)
(***************************************************************************)
\* Math.abs
Abs(a) == IF a < 0 THEN -a ELSE a

Min(a, b) == IF a < b THEN a ELSE b

\* The integer square root of n >= 0 between lo and hi, by bisection.
RECURSIVE ISqrtIn(_, _, _)
ISqrtIn(n, lo, hi) ==
  IF lo >= hi THEN lo
  ELSE LET mid == (lo + hi + 1) \div 2
       IN  IF mid * mid <= n THEN ISqrtIn(n, mid, hi)
                             ELSE ISqrtIn(n, lo, mid - 1)

\* The largest power of two whose square does not overflow 32 bits.
SqrtCeiling == 2^15

ISqrt(n) == ISqrtIn(n, 0, SqrtCeiling)

\* The largest digit d with 20*p*d + d*d <= x.
SqrtNextDigit(p, x) ==
  IF 20 * p >= 64
  THEN LET d0 == Min(9, x \div (20 * p))
       IN  IF 20 * p * d0 + d0 * d0 <= x THEN d0 ELSE d0 - 1
  ELSE CHOOSE d \in 0..9 :
         /\ 20 * p * d + d * d <= x
         /\ \A e \in (d + 1)..9 : 20 * p * e + e * e > x

\* One more decimal digit of a square root: from p = floor(sqrt(m)) and the
\* remainder r = m - p*p to floor(sqrt(100*m)) and its remainder.
SqrtDigit(pr) ==
  LET j == SqrtNextDigit(pr[1], 100 * pr[2])
  IN  <<10 * pr[1] + j, 100 * pr[2] - (20 * pr[1] * j + j * j)>>

\* Math.sqrt of a whole number, in units of 1/Scale (three decimal digits).
SqrtScaled(n) ==
  LET p0 == ISqrt(n)
  IN  SqrtDigit(SqrtDigit(SqrtDigit(<<p0, n - p0 * p0>>)))[1]

\* (mutant) p2.y written for p2.x in the first difference
euclideanDistanceMixed(p1, p2) ==
  LET xdiff == (p1.x - p2.y) * (p1.x - p2.y)
      ydiff == (p1.y - p2.y) * (p1.y - p2.y)
  IN  SqrtScaled(xdiff + ydiff)

\* euclideanDistance(p1, p2) of two whole-pixel points, in units of 1/Scale.
euclideanDistance(p1, p2) ==
  LET xdiff == (p1.x - p2.x) * (p1.x - p2.x)
      ydiff == (p1.y - p2.y) * (p1.y - p2.y)
  IN  SqrtScaled(xdiff + ydiff)

\* (mutant) the difference without Math.abs
compareFunctionSigned(a, b) == a - b

\* The denominator the factors of getMultiplicationFactor are written over
FactorDen(cutOff) == cutOff * Scale

\* (mutant) the line alone, without the test against the cut-off distance
getMultiplicationFactorLine(cutOff, p1, p2) ==
  FactorDen(cutOff) - euclideanDistance(p1, p2)

\* getMultiplicationFactor(cutOffDistance, p1, p2), as the numerator of a
\* fraction over FactorDen(cutOffDistance): (-1 / cutOffDistance) * distance + 1
\* is (cutOffDistance - distance) / cutOffDistance.
getMultiplicationFactor(cutOff, p1, p2) ==
  LET distance == euclideanDistance(p1, p2)
  IN  IF distance < FactorDen(cutOff)
      THEN FactorDen(cutOff) - distance
      ELSE 0

\* compareFunction = (a,b) => Math.abs(a - b)
compareFunction(a, b) == Abs(a - b)

\* x * acc_coef, rounded towards zero (x >= 0)
TimesAccCoef(x) == (x * accCoefNum) \div accCoefDen

\* acc_coef as a distance, in units of 1/Scale
accCoefUnits == (Scale * accCoefNum) \div accCoefDen

\* (mutant) the sign is folded into the speed that is returned
applyEaseOutSignedSpeed(destinationValue, currentValue, speed) ==
  IF compareFunction(currentValue, destinationValue) - speed > accCoefUnits
  THEN LET sign == IF currentValue < destinationValue THEN 1 ELSE -1
           speed2 == sign * TimesAccCoef(compareFunction(currentValue, destinationValue))
       IN  <<currentValue + speed2, speed2>>
  ELSE <<currentValue, speed>>

\* (mutant) the test compares the gap alone with the coefficient, the speed
\* left out
applyEaseOutGapOnly(destinationValue, currentValue, speed) ==
  IF compareFunction(currentValue, destinationValue) > accCoefUnits
  THEN LET speed2 == TimesAccCoef(compareFunction(currentValue, destinationValue))
           sign == IF currentValue < destinationValue THEN 1 ELSE -1
       IN  <<currentValue + sign * speed2, speed2>>
  ELSE <<currentValue, speed>>

\* applyNonDeterministicEaseOut: <<currentValue, speed>> after one step.
applyNonDeterministicEaseOut(destinationValue, currentValue, speed) ==
  IF compareFunction(currentValue, destinationValue) - speed > accCoefUnits
  THEN LET speed2 == TimesAccCoef(compareFunction(currentValue, destinationValue))
           sign == IF currentValue < destinationValue THEN 1 ELSE -1
       IN  <<currentValue + sign * speed2, speed2>>
  ELSE <<currentValue, speed>>

\* getEasing (policy A of the specification): the same step, unguarded.
getEasing(destinationValue, currentValue, speed) ==
  LET speed2 == TimesAccCoef(compareFunction(currentValue, destinationValue))
      sign == IF currentValue < destinationValue THEN 1 ELSE -1
  IN  <<currentValue + sign * speed2, speed2>>


(***************************************************************************)
(* Entities (class CanvasImage) and their sizes.                           *)
(***************************************************************************)
\* img.left * this.canvas.width - img.w / 2 (and the same for top)
LeftOf(img) == (img.left * innerWidth) \div 100 - img.w \div 2
TopOf(img) == (img.top * innerHeight) \div 100 - img.h \div 2

\* new CanvasImage(left, top, width, height, url) of the first component;
\* idx stands for the object's identity.
CanvasImage1(idx, left, top, width, height, url) ==
  [idx |-> idx, url |-> url, width |-> width, height |-> height,
   center |-> [x |-> left + width \div 2, y |-> top + height \div 2],
   currentValue |-> initialCurrentValue * Scale, speed |-> 0]

\* new CanvasImage(left, top, width, height, url) of the second component
CanvasImage2(idx, left, top, width, height, url) ==
  [idx |-> idx, url |-> url, width |-> width, height |-> height,
   center |-> [x |-> left + width \div 2, y |-> top + height \div 2],
   hasLoaded |-> FALSE, opacity |-> 0, loadingAnimationStartTime |-> Null,
   currentValue |-> initialCurrentValue * Scale, speed |-> 0]

cutOffUnits == cutOffDistance * Scale

\* mFactor of the first component (draw and handleCanvasClick), as the
\* numerator of a fraction over cutOffUnits
mFactor1(currentValue) ==
  IF currentValue < cutOffUnits THEN cutOffUnits - currentValue ELSE 0

\* (mutant) the line alone, without the test against cutOffDistance
mFactor2Line(currentValue) == cutOffUnits - currentValue

\* mFactor of the second component (draw and handleCanvasClick)
mFactor2(currentValue) ==
  IF currentValue > cutOffUnits THEN 0 ELSE cutOffUnits - currentValue

\* Math.floor(size + size * mFactor)
Dynamic(size, mFactor) == (size * cutOffUnits + size * mFactor) \div cutOffUnits

\* The width and height draw() paints an entity with.
DrawDims(v, elem) ==
  LET m == IF v = 1 THEN mFactor1(elem.currentValue) ELSE mFactor2(elem.currentValue)
  IN  [width |-> Dynamic(elem.width, m), height |-> Dynamic(elem.height, m)]

\* (mutant) the click handler with a cut-off distance of its own, half of
\* the one draw() uses
ClickDimsOtherCutOff(v, elem) ==
  LET half == cutOffUnits \div 2
      m == IF elem.currentValue > half THEN 0 ELSE half - elem.currentValue
  IN  [width |-> (elem.width * half + elem.width * m) \div half,
       height |-> (elem.height * half + elem.height * m) \div half]

\* The width and height handleCanvasClick computes for an entity.
ClickDims(v, elem) ==
  LET m == IF v = 1 THEN mFactor1(elem.currentValue) ELSE mFactor2(elem.currentValue)
  IN  [width |-> Dynamic(elem.width, m), height |-> Dynamic(elem.height, m)]

\* A drawImage call; x2 and y2 are twice the left and top coordinates.
PaintCommand(elem, x2, y2, w, h, alpha) ==
  [idx |-> elem.idx, x2 |-> x2, y2 |-> y2, width |-> w, height |-> h,
   alpha |-> alpha]

(***************************************************************************)
(* Array.prototype.sort with the components' comparator.                   *)
(***************************************************************************)
\* (mutant) the comparator with its operands exchanged: nearest first
AscendingComparator(elem1, elem2, p) ==
  euclideanDistance(elem1.center, p) - euclideanDistance(elem2.center, p)

\* (elem1, elem2) => euclideanDistance(elem2.center, p) - euclideanDistance(elem1.center, p)
SortComparator(elem1, elem2, p) ==
  euclideanDistance(elem2.center, p) - euclideanDistance(elem1.center, p)

\* e put into the sorted sequence s, behind every element not after it.
RECURSIVE SortInsert(_, _, _)
SortInsert(s, e, p) ==
  IF s = <<>> THEN <<e>>
  ELSE IF SortComparator(s[Len(s)], e, p) > 0
       THEN Append(SortInsert(SubSeq(s, 1, Len(s) - 1), e, p), s[Len(s)])
       ELSE Append(s, e)

\* canvasElements.sort(comparator): a stable sort.
RECURSIVE SortElements(_, _)
SortElements(s, p) ==
  IF s = <<>> THEN <<>>
  ELSE SortInsert(SortElements(SubSeq(s, 1, Len(s) - 1), p), s[Len(s)], p)

(***************************************************************************)
(* State.                                                                  *)
(***************************************************************************)
VARIABLES
  variant,                  \* which of the two components this is
  mountState,               \* "constructed", "mounted" or "unmounted"
  canvasElements,           \* this.canvasElements
  mouseCoords,              \* this.mouseCoords
  prevMouseCoords,          \* this.prevMouseCoords
  origin,                   \* this.origin (this.parallax in the first component)
  animationID,              \* this.animationID
  hasInitAnimationFinished, \* this.hasInitAnimationFinished
  frames,                   \* the frame callbacks requested and not yet run
  nextFrameId,              \* the id the next requestAnimationFrame returns
  clock,                    \* the timestamp of the latest frame
  failed,                   \* the images whose load event never comes
  transform,                \* the canvas context's translation
  painted,                  \* the drawImage calls of the latest tick
  sortPointer,              \* translatedMouseCoords of the latest drawing tick
  drawTicks,                \* how many drawing ticks have run
  ranAfterUnmount,          \* whether animate() ran after componentWillUnmount
  lastOp,                   \* the handler that ran last
  evt,                      \* the position the latest pointer-move event reported
  firstEvt,                 \* the position the first pointer-move event reported
  fired,                    \* the entities whose onClick the latest click fired
  hit,                      \* the sizes the latest click computed, per entity
  moves,                    \* how many pointer-move events have been handled
  repeated,                 \* whether the latest pointer-move event repeated a position
  calc                      \* the call of a function of ./util or of a constructor
                            \* under study, with its arguments and result

program == <<canvasElements, mouseCoords, prevMouseCoords, origin, animationID,
             hasInitAnimationFinished>>
environment == <<variant, mountState, frames, nextFrameId, clock, failed, transform>>
history == <<painted, sortPointer, drawTicks, ranAfterUnmount, lastOp, evt,
             firstEvt, fired, hit, moves, repeated>>
vars == <<program, environment, history, calc>>

NoPoint == <<>>

\* No call under study
NoCalc == [op |-> "none"]

\* The fields of a component that has been constructed
ProgramInit ==
  /\ variant \in {1, 2}
  /\ mountState = "constructed"
  /\ canvasElements = <<>>
  /\ mouseCoords =
       IF variant = 1
       THEN [x |-> initialMouse1, y |-> initialMouse1,
             totalMovementX |-> 0, totalMovementY |-> 0]
       ELSE [x |-> 2 * innerWidth, y |-> 2 * innerHeight,
             totalMovementX |-> 0, totalMovementY |-> 0]
  /\ prevMouseCoords = [x |-> Undefined, y |-> Undefined]
  /\ origin = [currentLeft |-> 0, speedLeft |-> 0, currentTop |-> 0, speedTop |-> 0]
  /\ animationID = Undefined
  /\ hasInitAnimationFinished = FALSE
  /\ frames = {}
  /\ nextFrameId = 1
  /\ clock = 0
  /\ failed \in {f \in SUBSET ImageIds : variant = 2 /\ Cardinality(f) <= 1}
                \cup {{}}
  /\ transform = [x |-> 0, y |-> 0]
  /\ painted = <<>>
  /\ sortPointer = NoPoint
  /\ drawTicks = 0
  /\ ranAfterUnmount = FALSE
  /\ lastOp = "none"
  /\ evt = NoPoint
  /\ firstEvt = NoPoint
  /\ fired = <<>>
  /\ hit = <<>>
  /\ moves = 0
  /\ repeated = FALSE

Init ==
  /\ ProgramInit
  /\ calc = NoCalc


(***************************************************************************)
(* The steps of the animation loop.                                        *)
(***************************************************************************)
\* The easing function each component imports from ./util
Ease(v, destinationValue, currentValue, speed) ==
  IF v = 1 THEN getEasing(destinationValue, currentValue, speed)
           ELSE applyNonDeterministicEaseOut(destinationValue, currentValue, speed)

\* Math.floor(current * coefficient), current in units of 1/Scale
FloorTimesCoefficient(current) == current \div (coefficientDen * Scale)

\* translatedMouseCoords of animate, drawingAnimation and handleCanvasClick
TranslatedMouseCoords(mouse, org) ==
  [x |-> mouse.x + FloorTimesCoefficient(org.currentLeft),
   y |-> mouse.y + FloorTimesCoefficient(org.currentTop)]

\* ctx.translate(Math.floor(-currentLeft * coefficient), Math.floor(-currentTop * coefficient))
Translation(org) ==
  [x |-> FloorTimesCoefficient(-org.currentLeft),
   y |-> FloorTimesCoefficient(-org.currentTop)]

\* The easing of the canvas origin towards the total mouse movement.
EaseOrigin(v, mouse, org) ==
  LET left == Ease(v, mouse.totalMovementX * Scale, org.currentLeft, org.speedLeft)
      top == Ease(v, mouse.totalMovementY * Scale, org.currentTop, org.speedTop)
  IN  [currentLeft |-> left[1], speedLeft |-> left[2],
       currentTop |-> top[1], speedTop |-> top[2]]

\* (mutant) the easing is applied a second time to its own result
DrawEaseTwice(v, elem, mc) ==
  LET dest == euclideanDistance(elem.center, mc)
      e1 == Ease(v, dest, elem.currentValue, elem.speed)
      e2 == Ease(v, dest, e1[1], e1[2])
  IN  [elem EXCEPT !.currentValue = e2[1], !.speed = e2[2]]

\* CanvasImage.draw, the easing: the entity after the call
DrawEase(v, elem, mc) ==
  LET e == Ease(v, euclideanDistance(elem.center, mc), elem.currentValue, elem.speed)
  IN  [elem EXCEPT !.currentValue = e[1], !.speed = e[2]]

\* CanvasImage.draw, the painting: the drawImage call of an eased entity
DrawPaint(v, elem) ==
  LET d == DrawDims(v, elem)
  IN  PaintCommand(elem, 2 * elem.center.x - d.width, 2 * elem.center.y - d.height,
                   d.width, d.height, OpacityOne)

\* drawingAnimation (the body of animate in the first component)
drawingAnimation(v, elems, mouse, org) ==
  LET org2 == EaseOrigin(v, mouse, org)
      tm == TranslatedMouseCoords(mouse, org2)
      sorted == SortElements(elems, tm)
      drawn == [i \in 1..Len(sorted) |-> DrawEase(v, sorted[i], tm)]
  IN  [origin |-> org2, transform |-> Translation(org2), pointer |-> tm,
       elements |-> drawn,
       painted |-> [i \in 1..Len(drawn) |-> DrawPaint(v, drawn[i])]]

\* !this.loadingAnimationStartTime
Falsy(t) == t = Null \/ t = Some(0)

\* (mutant) the fade-in starts again at every call
drawFadeInRestart(elem, timestamp) ==
  [elem EXCEPT !.loadingAnimationStartTime = Some(timestamp), !.opacity = 0]

\* CanvasImage.drawFadeIn: the entity after the call
drawFadeIn(elem, timestamp) ==
  LET start == IF Falsy(elem.loadingAnimationStartTime)
               THEN Some(timestamp) ELSE elem.loadingAnimationStartTime
      currentTime == timestamp - start[1]
      normalizedTime == (currentTime * Scale) \div duration
  IN  [elem EXCEPT !.loadingAnimationStartTime = start,
                   !.opacity = IF currentTime <= duration
                               THEN normalizedTime * normalizedTime
                               ELSE OpacityOne]

\* The drawImage call drawFadeIn makes
FadeInPaint(elem) ==
  PaintCommand(elem, 2 * ((2 * elem.center.x - elem.width) \div 2),
               2 * ((2 * elem.center.y - elem.height) \div 2),
               elem.width, elem.height, elem.opacity)

IsLoaded(elem) == elem.hasLoaded

\* numVisibleLoadedImages
NumVisibleLoadedImages(elems) ==
  Cardinality({i \in 1..Len(elems) :
                 elems[i].hasLoaded = TRUE /\ elems[i].opacity = OpacityOne})

\* (mutant) the images that have loaded are counted, whatever their opacity
InitAnimationFinishedOnLoad(elems) ==
  Cardinality({i \in 1..Len(elems) : elems[i].hasLoaded = TRUE}) = PropsLength

\* hasInitAnimationFinished as loadingAnimation sets it
InitAnimationFinished(elems) == NumVisibleLoadedImages(elems) = PropsLength

\* loadingAnimation
loadingAnimation(elems, timestamp) ==
  LET faded == [i \in 1..Len(elems) |->
                  IF elems[i].hasLoaded THEN drawFadeIn(elems[i], timestamp)
                                        ELSE elems[i]]
      shown == SelectSeq(faded, IsLoaded)
  IN  [elements |-> faded,
       painted |-> [i \in 1..Len(shown) |-> FadeInPaint(shown[i])],
       finished |-> InitAnimationFinished(faded)]

\* The id after id in requestAnimationFrame's cycle
FrameIdAfter(id) == (id % NumFrameIds) + 1

\* (mutant) animate() requests the next frame and drops the id, as the
\* first component does
DropAnimationID(old, id) == old

\* this.animationID = requestAnimationFrame(...), the assignment
StoreAnimationID(old, id) == Some(id)

\* cancelAnimationFrame(id) on the set of requested callbacks
CancelAnimationFrame(requested, id) ==
  IF id = Undefined THEN requested ELSE requested \ {id[1]}

\* The part of the history that only the latest handler's run fills
Forget ==
  /\ fired' = <<>>
  /\ hit' = <<>>
  /\ repeated' = FALSE

(***************************************************************************)
(* The handlers.                                                           *)
(***************************************************************************)
\* componentDidMount of the first component, animate() included
componentDidMount1 ==
  /\ variant = 1
  /\ mountState = "constructed"
  /\ LET created == [idx \in 1..PropsLength |->
                       CanvasImage1(idx, LeftOf(Props[idx]), TopOf(Props[idx]),
                                    Props[idx].w, Props[idx].h, Props[idx].url)]
     IN  \E step \in {drawingAnimation(1, created, mouseCoords, origin)} :
         /\ canvasElements' = step.elements
         /\ origin' = step.origin
         /\ transform' = step.transform
         /\ sortPointer' = Some(step.pointer)
         /\ painted' = step.painted
  /\ drawTicks' = drawTicks + 1
  /\ frames' = frames \cup {nextFrameId}
  /\ nextFrameId' = FrameIdAfter(nextFrameId)
  /\ mountState' = "mounted"
  /\ lastOp' = "mount"
  /\ Forget
  /\ UNCHANGED <<calc, mouseCoords, prevMouseCoords, animationID, hasInitAnimationFinished,
                 variant, clock, failed, ranAfterUnmount, evt, firstEvt, moves>>

\* componentDidMount of the second component, animate() included
componentDidMount2 ==
  /\ variant = 2
  /\ mountState = "constructed"
  /\ LET created == [idx \in 1..PropsLength |->
                       CanvasImage2(idx, LeftOf(Props[idx]), TopOf(Props[idx]),
                                    Props[idx].w, Props[idx].h, Props[idx].url)]
         sorted == SortElements(created, mouseCoords)
         step == loadingAnimation(sorted, Undefined)
     IN  /\ canvasElements' = step.elements
         /\ painted' = step.painted
         /\ hasInitAnimationFinished' = step.finished
  /\ animationID' = StoreAnimationID(animationID, nextFrameId)
  /\ frames' = frames \cup {nextFrameId}
  /\ nextFrameId' = FrameIdAfter(nextFrameId)
  /\ mountState' = "mounted"
  /\ lastOp' = "mount"
  /\ Forget
  /\ UNCHANGED <<calc, mouseCoords, prevMouseCoords, origin, variant, clock, failed,
                 transform, sortPointer, drawTicks, ranAfterUnmount, evt, firstEvt,
                 moves>>

\* The timer callback of loadImage: this.hasLoaded = true
AssetReady(idx) ==
  /\ variant = 2
  /\ mountState # "constructed"
  /\ idx \notin failed
  /\ clock <= LoadDeadline
  /\ \E i \in 1..Len(canvasElements) :
       /\ canvasElements[i].idx = idx
       /\ ~canvasElements[i].hasLoaded
       /\ canvasElements' = [canvasElements EXCEPT ![i].hasLoaded = TRUE]
  /\ lastOp' = "ready"
  /\ Forget
  /\ UNCHANGED <<calc, mouseCoords, prevMouseCoords, origin, animationID,
                 hasInitAnimationFinished, environment, painted, sortPointer,
                 drawTicks, ranAfterUnmount, evt, firstEvt, moves>>

\* A frame of the first component: the callback () => this.animate()
Frame1 ==
  /\ variant = 1
  /\ \E id \in frames :
       /\ frames' = (frames \ {id}) \cup {nextFrameId}
       /\ nextFrameId' = FrameIdAfter(nextFrameId)
  /\ \E step \in {drawingAnimation(1, canvasElements, mouseCoords, origin)} :
         /\ canvasElements' = step.elements
         /\ origin' = step.origin
         /\ transform' = step.transform
         /\ sortPointer' = Some(step.pointer)
         /\ painted' = step.painted
  /\ drawTicks' = drawTicks + 1
  /\ ranAfterUnmount' = (ranAfterUnmount \/ mountState = "unmounted")
  /\ lastOp' = "drawing"
  /\ Forget
  /\ UNCHANGED <<calc, mouseCoords, prevMouseCoords, animationID, hasInitAnimationFinished,
                 variant, mountState, clock, failed, evt, firstEvt, moves>>

\* Every image that will load has loaded.
AllReady ==
  \A i \in 1..Len(canvasElements) :
    canvasElements[i].hasLoaded \/ canvasElements[i].idx \in failed

\* A frame of the second component in the loading phase:
\* (timestamp) => this.animate(timestamp) with hasInitAnimationFinished false
FrameLoading(dt) ==
  /\ variant = 2
  /\ ~hasInitAnimationFinished
  /\ \E id \in frames :
       \E timestamp \in {Min(clock + dt, MaxClock)} :
       \E step \in {loadingAnimation(canvasElements, timestamp)} :
           /\ timestamp > LoadDeadline => AllReady
           /\ clock' = timestamp
           /\ canvasElements' = step.elements
           /\ painted' = step.painted
           /\ hasInitAnimationFinished' = step.finished
           /\ animationID' = StoreAnimationID(animationID, nextFrameId)
           /\ frames' = (frames \ {id}) \cup {nextFrameId}
           /\ nextFrameId' = FrameIdAfter(nextFrameId)
  /\ ranAfterUnmount' = (ranAfterUnmount \/ mountState = "unmounted")
  /\ lastOp' = "loading"
  /\ Forget
  /\ UNCHANGED <<calc, mouseCoords, prevMouseCoords, origin, variant, mountState, failed,
                 transform, sortPointer, drawTicks, evt, firstEvt, moves>>

\* A frame of the second component once the loading phase is over; the
\* timestamp is no longer read, and clock is left as it is.
FrameDrawing ==
  /\ variant = 2
  /\ hasInitAnimationFinished
  /\ \E id \in frames :
       /\ animationID' = StoreAnimationID(animationID, nextFrameId)
       /\ frames' = (frames \ {id}) \cup {nextFrameId}
       /\ nextFrameId' = FrameIdAfter(nextFrameId)
  /\ \E step \in {drawingAnimation(2, canvasElements, mouseCoords, origin)} :
         /\ canvasElements' = step.elements
         /\ origin' = step.origin
         /\ transform' = step.transform
         /\ sortPointer' = Some(step.pointer)
         /\ painted' = step.painted
  /\ drawTicks' = drawTicks + 1
  /\ ranAfterUnmount' = (ranAfterUnmount \/ mountState = "unmounted")
  /\ lastOp' = "drawing"
  /\ Forget
  /\ UNCHANGED <<calc, mouseCoords, prevMouseCoords, hasInitAnimationFinished, variant,
                 mountState, clock, failed, evt, firstEvt, moves>>

\* (mutant) no first-time test: an undefined previous position counts as 0
FirstTimeZero(prev, mx, my) ==
  IF prev.x = Undefined /\ prev.y = Undefined
  THEN [x |-> Some(0), y |-> Some(0)] ELSE prev

\* prevMouseCoords after the first-time test of handleMouseMove
FirstTimePrev(prev, mx, my) ==
  IF prev.x = Undefined /\ prev.y = Undefined
  THEN [x |-> Some(mx), y |-> Some(my)] ELSE prev

\* (mutant) x and y exchanged in the previous position
SwapPrevMouseCoords(prev, mx, my) == [x |-> Some(my), y |-> Some(mx)]

\* (mutant) the previous position is set by the first event only
KeepPrevMouseCoords(prev, mx, my) == prev

\* this.prevMouseCoords as handleMouseMove leaves it
NextPrevMouseCoords(prev, mx, my) == [x |-> Some(mx), y |-> Some(my)]

\* handleMouseMove; mx and my are evt.clientX - canvasBox.left and
\* evt.clientY - canvasBox.top
handleMouseMove(mx, my) ==
  /\ mountState = "mounted"
  /\ LET prev == FirstTimePrev(prevMouseCoords, mx, my)
     IN  /\ mouseCoords' =
               [x |-> mx, y |-> my,
                totalMovementX |-> mouseCoords.totalMovementX + (mx - prev.x[1]),
                totalMovementY |-> mouseCoords.totalMovementY + (my - prev.y[1])]
         /\ prevMouseCoords' = NextPrevMouseCoords(prev, mx, my)
  /\ evt' = <<mx, my>>
  /\ firstEvt' = IF firstEvt = NoPoint THEN <<mx, my>> ELSE firstEvt
  /\ repeated' = (evt = <<mx, my>>)
  /\ moves' = moves + 1
  /\ lastOp' = "move"
  /\ fired' = <<>>
  /\ hit' = <<>>
  /\ UNCHANGED <<calc, canvasElements, origin, animationID, hasInitAnimationFinished,
                 environment, painted, sortPointer, drawTicks, ranAfterUnmount>>

\* The filter of handleCanvasClick: is the mouse within the image's region?
InRegion(v, elem, p) ==
  LET d == ClickDims(v, elem)
  IN  /\ 2 * p.x > 2 * elem.center.x - d.width
      /\ 2 * p.x < 2 * elem.center.x + d.width
      /\ 2 * p.y > 2 * elem.center.y - d.height
      /\ 2 * p.y < 2 * elem.center.y + d.height

\* clickedElements
ClickedElements(v, elems, p) ==
  LET Test(elem) == InRegion(v, elem, p)
  IN  SelectSeq(elems, Test)

\* (mutant) the first of clickedElements is taken, not the last
OnClickFirst(clickedElements) ==
  IF Len(clickedElements) > 0 THEN <<clickedElements[1].idx>> ELSE <<>>

\* The entities whose onClick runs, given clickedElements
OnClickTargets(clickedElements) ==
  IF Len(clickedElements) > 0
  THEN <<clickedElements[Len(clickedElements)].idx>>
  ELSE <<>>

\* (mutant) the click sorts this.canvasElements around the clicked point
\* before it filters them
handleCanvasClickSorting ==
  /\ mountState = "mounted"
  /\ \E p \in {TranslatedMouseCoords(mouseCoords, origin)} :
     \E sorted \in {SortElements(canvasElements, p)} :
         /\ canvasElements' = sorted
         /\ fired' = OnClickTargets(ClickedElements(variant, sorted, p))
         /\ hit' = [i \in 1..Len(sorted) |->
                      [idx |-> sorted[i].idx,
                       dims |-> ClickDims(variant, sorted[i])]]
  /\ lastOp' = "click"
  /\ repeated' = FALSE
  /\ UNCHANGED <<calc, mouseCoords, prevMouseCoords, origin, animationID,
                 hasInitAnimationFinished, environment, painted, sortPointer,
                 drawTicks, ranAfterUnmount, evt, firstEvt, moves>>

\* handleCanvasClick
handleCanvasClick ==
  /\ mountState = "mounted"
  /\ \E p \in {TranslatedMouseCoords(mouseCoords, origin)} :
         /\ fired' = OnClickTargets(ClickedElements(variant, canvasElements, p))
         /\ hit' = [i \in 1..Len(canvasElements) |->
                      [idx |-> canvasElements[i].idx,
                       dims |-> ClickDims(variant, canvasElements[i])]]
  /\ lastOp' = "click"
  /\ repeated' = FALSE
  /\ UNCHANGED <<calc, program, environment, painted, sortPointer, drawTicks,
                 ranAfterUnmount, evt, firstEvt, moves>>

\* componentWillUnmount of the first component: an alert, nothing else
componentWillUnmount1 ==
  /\ variant = 1
  /\ mountState = "mounted"
  /\ mountState' = "unmounted"
  /\ lastOp' = "unmount"
  /\ Forget
  /\ UNCHANGED <<calc, program, variant, frames, nextFrameId, clock, failed, transform,
                 painted, sortPointer, drawTicks, ranAfterUnmount, evt, firstEvt,
                 moves>>

\* componentWillUnmount of the second component
componentWillUnmount2 ==
  /\ variant = 2
  /\ mountState = "mounted"
  /\ frames' = CancelAnimationFrame(frames, animationID)
  /\ mountState' = "unmounted"
  /\ lastOp' = "unmount"
  /\ Forget
  /\ UNCHANGED <<calc, program, variant, nextFrameId, clock, failed, transform,
                 painted, sortPointer, drawTicks, ranAfterUnmount, evt, firstEvt,
                 moves>>

Next ==
  \/ componentDidMount1
  \/ componentDidMount2
  \/ \E idx \in ImageIds : AssetReady(idx)
  \/ \E dt \in FrameDts : FrameLoading(dt)
  \/ drawTicks < MaxDrawTicks /\ Frame1
  \/ drawTicks < MaxDrawTicks /\ FrameDrawing
  \/ moves < MaxMoves /\ \E pos \in PointerPositions : handleMouseMove(pos[1], pos[2])
  \/ handleCanvasClick
  \/ componentWillUnmount1
  \/ componentWillUnmount2

\* Every interleaving, with few drawing ticks.
Spec == Init /\ [][Next]_vars

LongNext ==
  \/ componentDidMount1
  \/ componentDidMount2
  \/ \E idx \in ImageIds : AssetReady(idx)
  \/ \E dt \in LongFrameDts : FrameLoading(dt)
  \/ drawTicks < LongDrawTicks /\ Frame1
  \/ drawTicks < LongDrawTicks /\ FrameDrawing
  \/ moves < LongMoves /\ \E pos \in LongPositions : handleMouseMove(pos[1], pos[2])
  \/ handleCanvasClick
  \/ componentWillUnmount1
  \/ componentWillUnmount2

\* Few pointer-move events, with many drawing ticks.
LongSpec == Init /\ [][LongNext]_vars

\* A drawing frame of the second component, told by what it does to
\* drawTicks: FrameDrawing is the one step of that component that adds to
\* drawTicks, and it can be taken whenever a frame is requested and the
\* loading phase is over.
DrawingFrame ==
  /\ variant = 2
  /\ hasInitAnimationFinished
  /\ frames # {}
  /\ drawTicks < MaxDrawTicks
  /\ drawTicks' = drawTicks + 1

\* Frames keep coming while one is requested, and every timer of an image
\* that loads fires.
Fairness ==
  /\ WF_vars(\E dt \in FrameDts : FrameLoading(dt))
  /\ WF_drawTicks(DrawingFrame)
  /\ \A idx \in ImageIds : WF_vars(AssetReady(idx))

FairSpec == Spec /\ Fairness

(***************************************************************************)
(* The second component with the pointer brought to one place and left     *)
(* there, and drawing ticks until the eased values rest.                   *)
(***************************************************************************)
\* The center of the first entity, and a point farther than cutOffDistance
\* from every entity
SettlePositions == {<<80, 80>>, <<1000, 1000>>}

SettleInit ==
  /\ Init
  /\ variant = 2
  /\ failed = {}

SettleNext ==
  \/ componentDidMount2
  \/ \E idx \in ImageIds : AssetReady(idx)
  \/ \E dt \in LongFrameDts : FrameLoading(dt)
  \/ drawTicks < SettleDrawTicks /\ FrameDrawing
  \/ moves < SettleMoves /\ \E pos \in SettlePositions : handleMouseMove(pos[1], pos[2])

SettleSpec == SettleInit /\ [][SettleNext]_vars

(***************************************************************************)
(* The easing functions on their own: one eased value, as the components   *)
(* keep them (currentValue and speed start at a constructor's values, the  *)
(* destination changes when the pointer moves).                            *)
(***************************************************************************)
\* The destinations, in units of 1/Scale: 0, 0.06 px, 150 px and 2000 px
EaseDestinations == {0, 60, 150 * Scale, initialCurrentValue * Scale}
\* currentLeft: 0 and this.currentValue = 2000
EaseStarts == {0, initialCurrentValue * Scale}

EaseInit ==
  /\ ProgramInit
  /\ failed = {}
  /\ calc \in [op : {"ease"}, v : {variant},
               destinationValue : EaseDestinations,
               currentValue : EaseStarts, speed : {0},
               steps : {0}, retargets : {0}, still : {0}]

\* One call of the easing function of component v, its result stored as the
\* callers store it; still counts the calls since the value last changed.
EaseStep ==
  /\ calc.op = "ease"
  /\ calc.steps < MaxEaseSteps
  /\ \E r \in {Ease(calc.v, calc.destinationValue, calc.currentValue, calc.speed)} :
       calc' = [calc EXCEPT !.currentValue = r[1], !.speed = r[2],
                            !.steps = @ + 1,
                            !.still = IF r = <<calc.currentValue, calc.speed>>
                                      THEN @ + 1 ELSE 0]
  /\ UNCHANGED <<program, environment, history>>

\* The pointer moves: the next calls have another destination.
EaseRetarget(d) ==
  /\ calc.op = "ease"
  /\ calc.retargets < MaxRetargets
  /\ d # calc.destinationValue
  /\ calc' = [calc EXCEPT !.destinationValue = d, !.retargets = @ + 1,
                          !.still = 0]
  /\ UNCHANGED <<program, environment, history>>

EaseNext ==
  \/ EaseStep
  \/ \E d \in EaseDestinations : EaseRetarget(d)

EaseSpec == EaseInit /\ [][EaseNext]_vars

(***************************************************************************)
(* The functions of ./util and the constructor of CanvasImage on their     *)
(* own: one call after another, each with its arguments and its outcome.   *)
(***************************************************************************)
\* The points the functions are called with (whole pixels)
UtilPoints ==
  {[x |-> 100, y |-> 100], [x |-> 100, y |-> 101], [x |-> 250, y |-> 100],
   [x |-> 400, y |-> 100], [x |-> 1000, y |-> 1000]}
\* The cut-off distances getMultiplicationFactor is called with
UtilCutOffs == {-cutOffDistance, 0, cutOffDistance \div 2, cutOffDistance}
\* The widths and heights entities are constructed with
UtilSizes == {-200, 0, 200, 250}

UtilInit ==
  /\ ProgramInit
  /\ variant = 2
  /\ failed = {}
  /\ calc = NoCalc

\* euclideanDistance(p1, p2)
CallEuclideanDistance(p1, p2) ==
  /\ calc' = [op |-> "euclideanDistance", p1 |-> p1, p2 |-> p2,
              threw |-> FALSE, result |-> euclideanDistance(p1, p2)]
  /\ UNCHANGED <<program, environment, history>>

\* getMultiplicationFactor(cutOff, p1, p2); prev keeps distance and result
\* of the call before when that call had the same cut-off distance.
CallGetMultiplicationFactor(cutOff, p1, p2) ==
  /\ calc' = [op |-> "getMultiplicationFactor", cutOffDistance |-> cutOff,
              p1 |-> p1, p2 |-> p2, threw |-> FALSE,
              distance |-> euclideanDistance(p1, p2),
              result |-> getMultiplicationFactor(cutOff, p1, p2),
              prev |-> IF /\ calc.op = "getMultiplicationFactor"
                          /\ calc.cutOffDistance = cutOff
                       THEN <<calc.distance, calc.result>>
                       ELSE <<>>]
  /\ UNCHANGED <<program, environment, history>>

\* new CanvasImage(0, 0, width, height, url): the constructor has no throw
\* statement and returns the object whatever the arguments.
ConstructCanvasImage(width, height) ==
  /\ calc' = [op |-> "CanvasImage", width |-> width, height |-> height,
              threw |-> FALSE,
              result |-> CanvasImage2(1, 0, 0, width, height, "url")]
  /\ UNCHANGED <<program, environment, history>>

UtilNext ==
  \/ \E p1, p2 \in UtilPoints : CallEuclideanDistance(p1, p2)
  \/ \E cutOff \in UtilCutOffs : \E p1, p2 \in UtilPoints :
       CallGetMultiplicationFactor(cutOff, p1, p2)
  \/ \E width, height \in UtilSizes : ConstructCanvasImage(width, height)

UtilSpec == UtilInit /\ [][UtilNext]_vars

(***************************************************************************)
(* The image instances componentDidMount creates, and what a click on one  *)
(* of them reports.                                                        *)
(***************************************************************************)
\* CANVAS_IMAGE_PROPS.forEach((img, idx) => this.canvasElements[idx] =
\* new CanvasImage(...)), for the component v given the properties props
CreateImageInstances(v, props) ==
  [idx \in 1..Len(props) |->
     IF v = 1
     THEN CanvasImage1(idx, LeftOf(props[idx]), TopOf(props[idx]),
                       props[idx].w, props[idx].h, props[idx].url)
     ELSE CanvasImage2(idx, LeftOf(props[idx]), TopOf(props[idx]),
                       props[idx].w, props[idx].h, props[idx].url)]

\* onClick(): alert(`clicked ${this.url}`)
onClick(elem) == elem.url

PropsInit ==
  /\ ProgramInit
  /\ failed = {}
  /\ calc = NoCalc

\* The instances are created from the first n of CANVAS_IMAGE_PROPS (all of
\* them when n is the length).
CallCreateImageInstances(n) ==
  /\ calc.op = "none"
  /\ calc' = [op |-> "CreateImageInstances", n |-> n,
              elements |-> CreateImageInstances(variant,
                                                SubSeq(CANVAS_IMAGE_PROPS, 1, n))]
  /\ UNCHANGED <<program, environment, history>>

\* The onClick method of the i-th instance runs.
CallOnClick(i) ==
  /\ calc.op \in {"CreateImageInstances", "onClick"}
  /\ i \in 1..Len(calc.elements)
  /\ calc' = [op |-> "onClick", n |-> calc.n, elements |-> calc.elements,
              target |-> i, reported |-> onClick(calc.elements[i])]
  /\ UNCHANGED <<program, environment, history>>

PropsNext ==
  \/ \E n \in 1..Len(CANVAS_IMAGE_PROPS) : CallCreateImageInstances(n)
  \/ \E i \in 1..Len(CANVAS_IMAGE_PROPS) : CallOnClick(i)

PropsSpec == PropsInit /\ [][PropsNext]_vars

(***************************************************************************)
(* What the claims are stated with.                                        *)
(***************************************************************************)
Indices == 1..Len(canvasElements)

\* The pointer in the coordinate space of the painting, as of now
PointerNow == TranslatedMouseCoords(mouseCoords, origin)

\* The bounds an entity is painted with strictly contain the point p.
BoundsContain(elem, p) ==
  LET d == DrawDims(variant, elem)
  IN  /\ 2 * elem.center.x - d.width < 2 * p.x
      /\ 2 * p.x < 2 * elem.center.x + d.width
      /\ 2 * elem.center.y - d.height < 2 * p.y
      /\ 2 * p.y < 2 * elem.center.y + d.height

\* The indices of the entities whose bounds contain the pointer
Matching == {i \in Indices : BoundsContain(canvasElements[i], PointerNow)}

Highest(S) == CHOOSE i \in S : \A j \in S : j <= i

\* The squared distance of an entity's center from the point p, in pixels
SquaredDistance(elem, p) ==
  (elem.center.x - p.x) * (elem.center.x - p.x)
    + (elem.center.y - p.y) * (elem.center.y - p.y)

\* Some entity is bigger than its base size.
SomeGrown ==
  \E i \in Indices :
    DrawDims(variant, canvasElements[i]).width > canvasElements[i].width

\* The size the latest tick painted the entity idx with
PaintedDims(idx) ==
  LET c == CHOOSE k \in 1..Len(painted) : painted[k].idx = idx
  IN  [width |-> painted[c].width, height |-> painted[c].height]

(***************************************************************************)
(* The claims.                                                             *)
(***************************************************************************)
\* C1: in the component that records animationID, once componentWillUnmount
\* has run no frame callback is scheduled and animate() never runs again.
C1_UnmountStopsTheLoop ==
  (variant = 2 /\ mountState = "unmounted") => (frames = {} /\ ~ranAfterUnmount)

\* The second component unmounted after drawing ticks and pointer events.
C1_Witness ==
  /\ variant = 2
  /\ mountState = "unmounted"
  /\ drawTicks > 0
  /\ moves > 0
  /\ animationID # Undefined

\* C2: in the getEasing-based component, after componentWillUnmount has
\* run, the outstanding frame callback is cancelled and animate() does not
\* run again.
C2_UnmountStopsTheLoop ==
  (variant = 1 /\ mountState = "unmounted") => (frames = {} /\ ~ranAfterUnmount)

\* C3: a click fires onClick on exactly one entity when some entity's bounds
\* strictly contain the translated pointer, namely the matching entity with
\* the highest index in canvasElements, and on none when no bounds contain it.
C3_ClickFiresLastMatch ==
  lastOp = "click" =>
    fired = IF Matching = {} THEN <<>>
            ELSE <<canvasElements[Highest(Matching)].idx>>

\* A click on two overlapping entities, one of them grown.
C3_Witness ==
  /\ lastOp = "click"
  /\ Cardinality(Matching) >= 2
  /\ SomeGrown
  /\ Len(fired) = 1

\* C4: for every interleaving of pointer-move events, frame ticks and
\* clicks, a click resolves to the entity nearest the pointer among the
\* entities whose bounds contain it.
C4_ClickFiresNearestMatch ==
  (lastOp = "click" /\ Matching # {}) =>
    \E i \in Matching :
      /\ fired = <<canvasElements[i].idx>>
      /\ \A j \in Matching :
           SquaredDistance(canvasElements[i], PointerNow)
             <= SquaredDistance(canvasElements[j], PointerNow)

\* C5: at the end of every drawing tick canvasElements is in descending order
\* of the distance from the translated pointer of that tick to each entity's
\* center: farthest at index 1, nearest last.
C5_SortedFarthestFirst ==
  drawTicks > 0 =>
    \A i, j \in Indices :
      i < j => euclideanDistance(canvasElements[i].center, sortPointer[1])
                 >= euclideanDistance(canvasElements[j].center, sortPointer[1])

\* A drawing tick that put the entities in another order than the one they
\* were created in, at pairwise different distances.
C5_Witness ==
  /\ lastOp = "drawing"
  /\ canvasElements[1].idx # 1
  /\ \A i, j \in Indices :
       i < j => euclideanDistance(canvasElements[i].center, sortPointer[1])
                  # euclideanDistance(canvasElements[j].center, sortPointer[1])

\* C6: at every click that follows a drawing tick, the width and height the
\* click handler computes for each entity are the width and height the latest
\* drawing tick painted it with, whatever pointer moves came in between.
C6_ClickSizesArePaintedSizes ==
  (lastOp = "click" /\ drawTicks > 0) =>
    \A i \in 1..Len(hit) : hit[i].dims = PaintedDims(hit[i].idx)

\* A click on a grown entity, the pointer having moved since the latest tick.
C6_Witness ==
  /\ lastOp = "click"
  /\ drawTicks > 0
  /\ \E i \in 1..Len(hit) : hit[i].dims.width > canvasElements[i].width
  /\ PointerNow # sortPointer[1]

\* C7: the first pointer-move event after mount leaves totalMovementX and
\* totalMovementY at 0 and sets the current and the previous pointer position
\* to the position it reports.
C7_FirstMoveHasNoDelta ==
  moves = 1 =>
    /\ mouseCoords.totalMovementX = 0
    /\ mouseCoords.totalMovementY = 0
    /\ mouseCoords.x = evt[1]
    /\ mouseCoords.y = evt[2]
    /\ prevMouseCoords = [x |-> Some(evt[1]), y |-> Some(evt[2])]

\* The first pointer-move event, at a position other than the origin.
C7_Witness ==
  /\ moves = 1
  /\ lastOp = "move"
  /\ evt = <<170, 140>>

\* C8: a pointer-move event that reports the position the event before it
\* reported leaves x, y, prevX, prevY, totalMovementX and totalMovementY
\* unchanged.
C8_RepeatedMoveChangesNothing ==
  [][(lastOp' = "move" /\ repeated')
       => (mouseCoords' = mouseCoords /\ prevMouseCoords' = prevMouseCoords)]_vars

\* The events (0,0), (10,5), (10,5): the totals are 10 and 5.
C8_Witness ==
  /\ lastOp = "move"
  /\ repeated
  /\ moves = 3
  /\ firstEvt = <<0, 0>>
  /\ evt = <<10, 5>>
  /\ mouseCoords.totalMovementX = 10
  /\ mouseCoords.totalMovementY = 5

\* C9: if one entity's asset never becomes ready while all the others load,
\* the loop still, while the component stays mounted, eventually runs
\* drawingAnimation, so that the easing state of the other entities and the
\* parallax offset advance.
C9_OthersAnimate ==
  (variant = 2 /\ mountState = "mounted" /\ failed # {})
    ~> (mountState = "unmounted" \/ drawTicks > 0)

\* C10: whatever the order and timing in which the images become ready, once
\* all have and frames go on, every opacity reaches 1,
\* hasInitAnimationFinished becomes true and drawingAnimation runs.
C10_LoadingEnds ==
  (variant = 2 /\ mountState = "mounted" /\ failed = {})
    ~> \/ mountState = "unmounted"
       \/ /\ hasInitAnimationFinished
          /\ drawTicks > 0
          /\ \A i \in Indices : canvasElements[i].opacity = OpacityOne

\* The drawing phase reached by images that became ready at different times.
C10_Witness ==
  /\ variant = 2
  /\ drawTicks > 0
  /\ \E i, j \in Indices :
       canvasElements[i].loadingAnimationStartTime
         # canvasElements[j].loadingAnimationStartTime

\* The gap between the eased value and its destination
EaseGap == Abs(calc.currentValue - calc.destinationValue)

\* C11: where |current - destination| - speed <= accelerationCoefficient, a
\* step of applyNonDeterministicEaseOut with that destination returns current
\* and speed unchanged, and so does every further step.
C11_IdempotentAtConvergence ==
  [][(/\ calc.op = "ease"
      /\ calc.v = 2
      /\ calc'.steps = calc.steps + 1
      /\ EaseGap - calc.speed <= accCoefUnits)
       => (/\ calc'.currentValue = calc.currentValue
           /\ calc'.speed = calc.speed
           /\ calc'.destinationValue = calc.destinationValue)]_vars

\* The value has eased from 0 towards 0.06 px until the test failed, and two
\* more steps have been taken.
C11_Witness ==
  /\ calc.op = "ease"
  /\ calc.v = 2
  /\ calc.retargets = 0
  /\ calc.still >= 2
  /\ calc.steps > calc.still
  /\ EaseGap > 0
  /\ EaseGap - calc.speed <= accCoefUnits

C19_SettlesOnTarget ==
  (/\ calc.op = "ease"
   /\ calc.v = 2
   /\ calc.still >= 1
   /\ applyNonDeterministicEaseOut(calc.destinationValue, calc.currentValue,
                                   calc.speed) = <<calc.currentValue, calc.speed>>)
    => EaseGap <= Scale

\* C15: for a cut-off distance above 0, getMultiplicationFactor returns a
\* value between 0 and 1, exactly 1 at distance 0, exactly 0 at and beyond
\* the cut-off distance, and never a larger value for a larger distance.
C15_FactorRange ==
  (calc.op = "getMultiplicationFactor" /\ calc.cutOffDistance > 0)
    => /\ calc.result >= 0
       /\ calc.result <= FactorDen(calc.cutOffDistance)
       /\ calc.distance = 0 => calc.result = FactorDen(calc.cutOffDistance)
       /\ calc.distance >= FactorDen(calc.cutOffDistance) => calc.result = 0
       /\ (calc.prev # <<>> /\ calc.prev[1] <= calc.distance)
            => calc.prev[2] >= calc.result
       /\ (calc.prev # <<>> /\ calc.prev[1] >= calc.distance)
            => calc.prev[2] <= calc.result

\* A call at distance 0 followed by a call, with the same cut-off distance,
\* at a distance below it: 1 and then a value strictly between 0 and 1.
C15_Witness ==
  /\ calc.op = "getMultiplicationFactor"
  /\ calc.cutOffDistance > 0
  /\ calc.prev = <<0, FactorDen(calc.cutOffDistance)>>
  /\ calc.distance > 0
  /\ calc.result > 0
  /\ calc.result < FactorDen(calc.cutOffDistance)

\* C16: constructing an entity with a width or height that is not above 0,
\* or calling getMultiplicationFactor with a cut-off distance that is not
\* above 0, raises an error.
C16_MalformedFailsFast ==
  (\/ /\ calc.op = "CanvasImage"
      /\ (calc.width <= 0 \/ calc.height <= 0)
   \/ /\ calc.op = "getMultiplicationFactor"
      /\ calc.cutOffDistance <= 0)
    => calc.threw

\* C17: euclideanDistance(p1, p2) = euclideanDistance(p2, p1), and the
\* distance of a point to itself is 0.
C17_DistanceSymmetric ==
  calc.op = "euclideanDistance"
    => /\ calc.result = euclideanDistance(calc.p2, calc.p1)
       /\ calc.p1 = calc.p2 => calc.result = 0

\* A call with two points that differ in both coordinates, by different
\* amounts.
C17_Witness ==
  /\ calc.op = "euclideanDistance"
  /\ calc.result > 0
  /\ calc.p1.x # calc.p2.x
  /\ calc.p1.y # calc.p2.y
  /\ Abs(calc.p1.x - calc.p2.x) # Abs(calc.p1.y - calc.p2.y)

\* mFactor of an entity of the component at hand, over cutOffUnits
FactorOf(elem) ==
  IF variant = 1 THEN mFactor1(elem.currentValue) ELSE mFactor2(elem.currentValue)

\* A width and height between the base size of the entity idx and twice it
WithinBaseAndTwice(idx, width, height) ==
  /\ Props[idx].w <= width
  /\ width <= 2 * Props[idx].w
  /\ Props[idx].h <= height
  /\ height <= 2 * Props[idx].h

\* C14: in every reachable state each entity's currentValue is at least 0,
\* its factor is between 0 and 1, and every width and height that was
\* painted or hit-tested is between the base size and twice the base size.
C14_SizesWithinBounds ==
  /\ \A i \in Indices :
       /\ canvasElements[i].currentValue >= 0
       /\ FactorOf(canvasElements[i]) >= 0
       /\ FactorOf(canvasElements[i]) <= cutOffUnits
  /\ \A k \in 1..Len(painted) :
       WithinBaseAndTwice(painted[k].idx, painted[k].width, painted[k].height)
  /\ \A k \in 1..Len(hit) :
       WithinBaseAndTwice(hit[k].idx, hit[k].dims.width, hit[k].dims.height)

\* After pointer moves and drawing ticks, a click hit-tests an entity that
\* is painted, and tested, with a width strictly between base and twice base.
C14_Witness ==
  /\ lastOp = "click"
  /\ moves > 0
  /\ \E k \in 1..Len(painted) : \E j \in 1..Len(hit) :
       /\ painted[k].idx = hit[j].idx
       /\ painted[k].width > Props[painted[k].idx].w
       /\ painted[k].width < 2 * Props[painted[k].idx].w
       /\ hit[j].dims.width = painted[k].width

\* C18: after every tick and at every click, the correction added to the
\* pointer, floor(offset * coefficient) per axis, is the negation of the
\* translation the canvas was given, floor(-offset * coefficient).
C18_CorrectionNegatesTranslation ==
  lastOp \in {"mount", "drawing", "click"}
    => /\ FloorTimesCoefficient(origin.currentLeft) = -transform.x
       /\ FloorTimesCoefficient(origin.currentTop) = -transform.y

\* C20: in the component with a loading phase, the entity whose onClick a
\* click runs has been painted: its image has loaded and its opacity is
\* above 0.
C20_ClickTargetIsVisible ==
  (lastOp = "click" /\ variant = 2 /\ fired # <<>>)
    => \A i \in Indices :
         canvasElements[i].idx = fired[1]
           => /\ canvasElements[i].hasLoaded
              /\ canvasElements[i].opacity > 0

\* The latest tick used the pointer as it is now, and another tick would
\* change neither the canvas origin nor the entity: the pointer has stayed
\* and the entity is painted the same from here on.
AtRest(elem) ==
  /\ variant = 2
  /\ lastOp = "drawing"
  /\ sortPointer = Some(PointerNow)
  /\ EaseOrigin(2, mouseCoords, origin) = origin
  /\ DrawEase(2, elem, PointerNow) = elem

\* C13: with the pointer staying at an entity's center the entity comes to
\* be painted at exactly twice its base width and height, and with the
\* pointer staying at cutOffDistance or farther at exactly its base width
\* and height; stated of the size the entity is painted with once the ticks
\* no longer change it.
C13_RestingSizeIsExact ==
  \A i \in Indices :
    AtRest(canvasElements[i])
      => LET elem == canvasElements[i]
             distance == euclideanDistance(elem.center, PointerNow)
         IN  /\ distance = 0
                  => PaintedDims(elem.idx) =
                       [width |-> 2 * elem.width, height |-> 2 * elem.height]
             /\ distance >= cutOffUnits
                  => PaintedDims(elem.idx) =
                       [width |-> elem.width, height |-> elem.height]

\* Every entity has loaded and has opacity exactly 1.
AllVisible ==
  \A i \in Indices :
    canvasElements[i].hasLoaded /\ canvasElements[i].opacity = OpacityOne

\* C21: in the component with a loading phase, a tick runs drawingAnimation
\* only if an earlier tick ended with every entity loaded and at opacity 1
\* (and hasInitAnimationFinished set); once hasInitAnimationFinished is
\* true it stays true and no tick runs loadingAnimation again.
C21_LoadingGatesRunning ==
  [][/\ (variant = 2 /\ lastOp' = "drawing")
          => (hasInitAnimationFinished /\ AllVisible)
     /\ hasInitAnimationFinished
          => (hasInitAnimationFinished' /\ lastOp' # "loading")]_vars

\* The loading phase has ended and the second drawing tick has run.
C21_Witness ==
  /\ variant = 2
  /\ lastOp = "drawing"
  /\ drawTicks >= 2
  /\ hasInitAnimationFinished
  /\ AllVisible

\* C22: handleMouseMove changes mouseCoords and prevMouseCoords only (no
\* entity, not the order of the entities, not the parallax origin); a tick
\* (animate, also the one componentDidMount runs) changes neither
\* mouseCoords nor prevMouseCoords; handleCanvasClick changes no field of
\* the component.
C22_SingleWriter ==
  [][/\ lastOp' = "move"
          => UNCHANGED <<canvasElements, origin, animationID,
                         hasInitAnimationFinished, transform>>
     /\ lastOp' \in {"mount", "loading", "drawing"}
          => UNCHANGED <<mouseCoords, prevMouseCoords>>
     /\ lastOp' = "click"
          => UNCHANGED <<program, transform>>]_vars

\* A click that ran an entity's onClick, after pointer moves have changed
\* the totals and drawing ticks have changed the entities and the origin.
C22_Witness ==
  /\ lastOp = "click"
  /\ fired # <<>>
  /\ mouseCoords.totalMovementX # 0
  /\ origin.currentLeft # 0
  /\ drawTicks >= 2

\* The entity elem after one easing step towards its distance from p
EasedOnce(elem, p) ==
  LET e == Ease(variant, euclideanDistance(elem.center, p),
                elem.currentValue, elem.speed)
  IN  [elem EXCEPT !.currentValue = e[1], !.speed = e[2]]

C24_TotalsAreLastMinusFirst ==
  firstEvt # NoPoint
    => /\ mouseCoords.totalMovementX = evt[1] - firstEvt[1]
       /\ mouseCoords.totalMovementY = evt[2] - firstEvt[2]

\* Three events, the latest away from the first, then a drawing tick and a
\* click.
C24_Witness ==
  /\ moves = MaxMoves
  /\ evt # firstEvt
  /\ mouseCoords.totalMovementX # 0
  /\ mouseCoords.totalMovementY # 0
  /\ drawTicks >= 1
  /\ origin.currentLeft # 0
  /\ lastOp = "click"

\* C25: in the component that eases with applyNonDeterministicEaseOut, the
\* speed of every entity and both speeds of the canvas origin are at least
\* 0 in every reachable state.
C25_SpeedsNotNegative ==
  variant = 2
    => /\ \A i \in Indices : canvasElements[i].speed >= 0
       /\ origin.speedLeft >= 0
       /\ origin.speedTop >= 0

\* The origin is being eased towards a negative total movement and the
\* entities towards smaller distances, all with speeds above 0.
C25_Witness ==
  /\ variant = 2
  /\ lastOp = "drawing"
  /\ mouseCoords.totalMovementX < 0
  /\ origin.currentLeft < 0
  /\ origin.speedLeft > 0
  /\ \A i \in Indices :
       /\ canvasElements[i].speed > 0
       /\ canvasElements[i].currentValue < initialCurrentValue * Scale

\* C26: what a click reports, the url of the entity whose onClick runs,
\* belongs to that entity alone among the entities created at mount.
C26_ReportedIdIsUnique ==
  calc.op = "onClick"
    => \A j \in 1..Len(calc.elements) :
         onClick(calc.elements[j]) = calc.reported => j = calc.target

=============================================================================
